---- MODULE Spec2Model ----
(***************************************************************************)
(* Model of RedditApiWrapper (src/src/reddit/wrapper.py): OAuth 2.0 token  *)
(* acquisition, lazy expiry check, one retry on 401/403 and the flattening *)
(* of the listing body.  Two callers run fetches on one shared wrapper    *)
(* instance; every statement that reads or writes the shared fields       *)
(* (_auth_headers, _access_token_expires_in) or the clock is its own step. *)
(***************************************************************************)
EXTENDS Integers, Sequences, FiniteSets, TLC

(* ------------------------------ bounds -------------------------------- *)
MaxClock == 2
MaxTokenRequests == 2
MaxFetches == 3

(* -------------------------- program constants ------------------------- *)
AUTH_EXPIRY_OVERHEAD_SECONDS == 60
NsPerSecond == 1000000000

Callers == {1, 2}
UserAgent == "agent"
NoToken == 0

SortType == {"hot", "top", "new", "controversial"}
Subreddits == {"foo"}
Users == {"bar"}
Limits == {10}
(* sort orders the callers of this specification ask for *)
Sorts == {"top"}

(* statuses the listing endpoint and the token endpoint may answer with *)
ListingStatuses == {200, 401, 403, 404}
TokenFailStatuses == {401}
ExpiresInValues == {61, 3600}

(* --------------------------- upstream bodies -------------------------- *)
ErrorBody == [error |-> "x"]

(* token endpoint, 200: the full body, or one lacking a key *)
TokenBodies(tok) ==
    {[access_token |-> tok, expires_in |-> e] : e \in ExpiresInValues}
    \cup {[access_token |-> tok, token_type |-> "bearer"]}
    \cup {[expires_in |-> 61, token_type |-> "bearer"]}

(* a response: the method of the request it answers, its status, its body *)
TokenResponses(tok) ==
    {[request |-> "POST", status_code |-> 200, json |-> b] : b \in TokenBodies(tok)}
    \cup {[request |-> "POST", status_code |-> s, json |-> ErrorBody] :
            s \in TokenFailStatuses}

(* listing children: wrappers with a "data" field, or without one *)
WrapA == [kind |-> "t3", data |-> [id |-> "a"]]
WrapB == [kind |-> "t3", data |-> [id |-> "b"]]
WrapNoData == [kind |-> "more"]

ListingBodies ==
    {[data |-> [children |-> c]] :
        c \in {<<>>, <<WrapA, WrapB>>, <<WrapB, WrapA>>, <<WrapA, WrapNoData>>}}
    \cup {[data |-> [after |-> "x"]]}

ListingResponses ==
    {[request |-> "GET", status_code |-> 200, json |-> b] : b \in ListingBodies}
    \cup {[request |-> "GET", status_code |-> s, json |-> ErrorBody] :
            s \in ListingStatuses \ {200}}

NoResponse == [request |-> "none", status_code |-> 0, json |-> ErrorBody]

(* ------------------------------ outcomes ------------------------------ *)
NoResult == [kind |-> "none", exc |-> "", line |-> 0, args |-> <<>>, value |-> <<>>]
Return(v) == [kind |-> "return", exc |-> "", line |-> 102, args |-> <<>>, value |-> v]
(* a bare `assert` raises AssertionError() with empty args; a missing key *)
(* raises KeyError(key)                                                   *)
Raise(exc, line, args) ==
    [kind |-> "raise", exc |-> exc, line |-> line, args |-> args, value |-> <<>>]

(* ------------------------------ state --------------------------------- *)
VARIABLES
    now,                      \* reading of time_ns()
    auth_headers,             \* self._auth_headers
    access_token_expires_in,  \* self._access_token_expires_in
    pc,                       \* per caller: position in the code
    site,                     \* per caller: where _authorize() was called from
    url, params,              \* per caller: arguments of _get_submissions
    call,                     \* per caller: the public operation called and its arguments
    response,                 \* per caller: latest HTTP response received
    result,                   \* per caller: outcome of the current fetch
    \* history of the current fetch of each caller
    chk,                      \* stored expiry vs clock at line 95
    authCalls,                \* _authorize() calls begun
    authOk,                   \* _authorize() calls that returned
    sent,                     \* bearer tokens carried by the GETs
    stale,                    \* a GET left with stored expiry <= clock and no refresh before
    statuses,                 \* statuses of the listing responses
    target,                   \* url and query parameters of the latest GET
    myTok,                    \* token this fetch stored at its latest line 58
    overwritten,              \* another caller has stored a token since then
    steps,                    \* steps of the code this fetch has taken
    run, runAuth,             \* consecutive clean fetches and their authorize calls
    \* history of the wrapper
    posts,                    \* token requests sent
    fetches,                  \* fetches started
    issued,                   \* tokens the token endpoint has issued
    lastWritten,              \* token stored by the latest execution of line 58
    authT, authE,             \* clock reading and expires_in of the latest line 60
    authTok,                  \* token of the response whose expires_in line 60 used last
    returned                  \* tokens whose authorize() has returned

vars == <<now, auth_headers, access_token_expires_in, pc, site, url, params, call,
          response, result, chk, authCalls, authOk, sent, stale, statuses, target,
          myTok, overwritten, steps, run, runAuth, posts, fetches, issued, lastWritten,
          authT, authE, authTok, returned>>

shared == <<auth_headers, access_token_expires_in>>
args == <<url, params, call>>
raceHist == <<myTok, overwritten>>
fetchHist == <<chk, authCalls, authOk, sent, stale, statuses, target, raceHist>>
Step(f) == steps' = [steps EXCEPT ![f] = @ + 1]
runHist == <<run, runAuth>>
wrapperHist == <<posts, issued, lastWritten, authT, authE, authTok, returned>>

(* ------------------------- pure parts of the code --------------------- *)
Bearer(access_token) == <<"Bearer", access_token>>

HeaderToken(headers) ==
    IF "Authorization" \in DOMAIN headers THEN headers["Authorization"][2] ELSE NoToken

(* variant: an Authorization header already present is kept *)
StoreTokenIfAbsent(headers, access_token) ==
    [k \in DOMAIN headers \cup {"Authorization"} |->
        IF k \in DOMAIN headers THEN headers[k] ELSE Bearer(access_token)]

(* line 58 *)
StoreToken(headers, access_token) ==
    [k \in DOMAIN headers \cup {"Authorization"} |->
        IF k = "Authorization" THEN Bearer(access_token) ELSE headers[k]]

(* variant: the assertion is compiled away *)
AuthorizeAssertOff(status_code) == TRUE

(* line 55 *)
AuthorizeAssert(status_code) == status_code = 200

(* variant: no safety margin *)
ExpiryInstantNoMargin(t, expires_in) == t + expires_in

(* line 60 *)
ExpiryInstant(t, expires_in) == t + expires_in - AUTH_EXPIRY_OVERHEAD_SECONDS

(* variants: refresh on every fetch; strict comparison; comparison turned round *)
ExpiredAlways(expiry, t) == TRUE
ExpiredStrict(expiry, t) == expiry < t
ExpiredReversed(expiry, t) == expiry >= t

(* line 95 *)
Expired(expiry, t) == expiry <= t

(* variant: every non-200 status asks for a refresh *)
ShouldReauthorizeAnyError(status_code) == status_code # 200

(* line 98 *)
ShouldReauthorize(status_code) == status_code \in {401, 403}

(* variant: the retry is a loop *)
AfterRetryLoop(status_code) == IF status_code \in {401, 403} THEN "l49" ELSE "l101"

(* where control goes after the GET of line 100: the `if` of line 98 is no loop *)
AfterRetry(status_code) == "l101"

(* variant: the user listing gets no sort parameter *)
UserParamsNoSort(limit, sort) == [limit |-> limit]

(* line 101 *)
ListingAssert(status_code) == status_code = 200

(* line 16-22: the members of the enum, numbered by auto(), and their names *)
SortValue == [hot |-> 1, top |-> 2, new |-> 3, controversial |-> 4]
SortMembers(names) == {SortValue[n] : n \in names}
SortName(member) == CHOOSE n \in SortType : SortValue[n] = member

NoCall == [op |-> "none", name |-> "", limit |-> 0, sort |-> 0]
NoTarget == <<>>

SubredditUrl(subreddit, sort) == <<"https://oauth.reddit.com", "r", subreddit, sort>>
SubredditParams(limit, sort) == [limit |-> limit]
UserUrl(user) == <<"https://oauth.reddit.com", "user", user, "submitted">>
UserParams(limit, sort) == [limit |-> limit, sort |-> sort]

(* variant: the list is built back to front *)
RECURSIVE CollectReversed(_, _)
CollectReversed(children, acc) ==
    IF children = <<>> THEN Return(acc)
    ELSE IF "data" \notin DOMAIN Head(children)
         THEN Raise("KeyError", 102, <<"data">>)
         ELSE CollectReversed(Tail(children), <<Head(children)["data"]>> \o acc)

(* variant: a child without "data" ends the list instead of raising *)
RECURSIVE CollectPartial(_, _)
CollectPartial(children, acc) ==
    IF children = <<>> THEN Return(acc)
    ELSE IF "data" \notin DOMAIN Head(children)
         THEN Return(acc)
         ELSE CollectPartial(Tail(children), Append(acc, Head(children)["data"]))

(* line 102: the list comprehension over data.children *)
RECURSIVE Collect(_, _)
Collect(children, acc) ==
    IF children = <<>> THEN Return(acc)
    ELSE IF "data" \notin DOMAIN Head(children)
         THEN Raise("KeyError", 102, <<"data">>)
         ELSE Collect(Tail(children), Append(acc, Head(children)["data"]))

Submissions(json) ==
    IF "data" \notin DOMAIN json THEN Raise("KeyError", 102, <<"data">>)
    ELSE IF "children" \notin DOMAIN json["data"]
         THEN Raise("KeyError", 102, <<"children">>)
         ELSE Collect(json["data"]["children"], <<>>)

Relation(expiry, t) ==
    IF expiry > t THEN "later" ELSE IF expiry = t THEN "equal" ELSE "earlier"

Min(a, b) == IF a < b THEN a ELSE b

(* ------------------------------ initial state ------------------------- *)
Init ==
    /\ now = 1
    /\ auth_headers = [k \in {"User-agent"} |-> UserAgent]
    /\ access_token_expires_in = 0
    /\ pc = [f \in Callers |-> "idle"]
    /\ site = [f \in Callers |-> "none"]
    /\ url = [f \in Callers |-> <<>>]
    /\ params = [f \in Callers |-> [limit |-> 0]]
    /\ call = [f \in Callers |-> NoCall]
    /\ target = [f \in Callers |-> NoTarget]
    /\ myTok = [f \in Callers |-> NoToken]
    /\ overwritten = [f \in Callers |-> FALSE]
    /\ steps = [f \in Callers |-> 0]
    /\ authTok = NoToken
    /\ returned = {}
    /\ response = [f \in Callers |-> NoResponse]
    /\ result = [f \in Callers |-> NoResult]
    /\ chk = [f \in Callers |-> "none"]
    /\ authCalls = [f \in Callers |-> 0]
    /\ authOk = [f \in Callers |-> 0]
    /\ sent = [f \in Callers |-> <<>>]
    /\ stale = [f \in Callers |-> FALSE]
    /\ statuses = [f \in Callers |-> <<>>]
    /\ run = [f \in Callers |-> 0]
    /\ runAuth = [f \in Callers |-> 0]
    /\ posts = 0
    /\ fetches = 0
    /\ issued = {}
    /\ lastWritten = NoToken
    /\ authT = 0
    /\ authE = 0

(* ------------------------------ the clock ----------------------------- *)
Tick ==
    /\ now < MaxClock
    /\ now' = now + 1
    /\ UNCHANGED <<shared, pc, site, args, response, result, fetchHist, steps,
                   runHist, wrapperHist, fetches>>

(* --------------------------- starting a fetch ------------------------- *)
Begin(f, u, p) ==
    /\ pc[f] \in {"idle", "done"}
    /\ fetches < MaxFetches
    /\ fetches' = fetches + 1
    /\ url' = [url EXCEPT ![f] = u]
    /\ params' = [params EXCEPT ![f] = p]
    /\ pc' = [pc EXCEPT ![f] = "l95"]
    /\ site' = [site EXCEPT ![f] = "none"]
    /\ response' = [response EXCEPT ![f] = NoResponse]
    /\ result' = [result EXCEPT ![f] = NoResult]
    /\ chk' = [chk EXCEPT ![f] = "none"]
    /\ authCalls' = [authCalls EXCEPT ![f] = 0]
    /\ authOk' = [authOk EXCEPT ![f] = 0]
    /\ sent' = [sent EXCEPT ![f] = <<>>]
    /\ stale' = [stale EXCEPT ![f] = FALSE]
    /\ statuses' = [statuses EXCEPT ![f] = <<>>]
    /\ target' = [target EXCEPT ![f] = NoTarget]
    /\ myTok' = [myTok EXCEPT ![f] = NoToken]
    /\ overwritten' = [overwritten EXCEPT ![f] = FALSE]
    /\ steps' = [steps EXCEPT ![f] = 0]
    /\ UNCHANGED <<now, shared, runHist, wrapperHist>>

(* line 62-77, for sort orders with the given names *)
SubredditCall(f, names) ==
    \E subreddit \in Subreddits, limit \in Limits, sort \in SortMembers(names) :
        /\ Begin(f, SubredditUrl(subreddit, SortName(sort)),
                 SubredditParams(limit, SortName(sort)))
        /\ call' = [call EXCEPT ![f] = [op |-> "subreddit", name |-> subreddit,
                                        limit |-> limit, sort |-> sort]]

(* line 79-92, for sort orders with the given names *)
UserCall(f, names) ==
    \E user \in Users, limit \in Limits, sort \in SortMembers(names) :
        /\ Begin(f, UserUrl(user), UserParams(limit, SortName(sort)))
        /\ call' = [call EXCEPT ![f] = [op |-> "user", name |-> user,
                                        limit |-> limit, sort |-> sort]]

subreddit_submissions(f) == SubredditCall(f, Sorts)

user_submissions(f) == UserCall(f, Sorts)

(* the fetch of caller f ends with outcome r: a return or a raise *)
Finish(f, r, sts) ==
    LET clean == chk[f] = "later" /\ sts = <<200>> IN
    /\ result' = [result EXCEPT ![f] = r]
    /\ pc' = [pc EXCEPT ![f] = "done"]
    /\ run' = [run EXCEPT ![f] = IF clean THEN Min(@ + 1, 2) ELSE 0]
    /\ runAuth' = [runAuth EXCEPT ![f] = IF clean THEN Min(@ + authCalls[f], 2) ELSE 0]

(* line 101-102 *)
Outcome(resp) ==
    IF ListingAssert(resp.status_code)
    THEN Submissions(resp.json)
    ELSE Raise("AssertionError", 101, <<>>)

(* ---------------------------- _get_submissions ------------------------ *)
(* line 95-96: the lazy expiry check *)
Line95(f) ==
    /\ pc[f] = "l95"
    /\ Step(f)
    /\ chk' = [chk EXCEPT ![f] = Relation(access_token_expires_in, now)]
    /\ IF Expired(access_token_expires_in, now)
       THEN /\ pc' = [pc EXCEPT ![f] = "l49"]
            /\ site' = [site EXCEPT ![f] = "l96"]
            /\ authCalls' = [authCalls EXCEPT ![f] = @ + 1]
       ELSE /\ pc' = [pc EXCEPT ![f] = "l97"]
            /\ UNCHANGED <<site, authCalls>>
    /\ UNCHANGED <<now, shared, args, response, result, authOk, sent, stale,
                   statuses, target, raceHist, runHist, wrapperHist, fetches>>

(* the GET of line 97 or 100: it reads the shared headers when it is sent *)
Get(f, r) ==
    /\ response' = [response EXCEPT ![f] = r]
    /\ statuses' = [statuses EXCEPT ![f] = Append(@, r.status_code)]
    /\ sent' = [sent EXCEPT ![f] = Append(@, HeaderToken(auth_headers))]
    /\ target' = [target EXCEPT ![f] = <<url[f], params[f]>>]
    /\ stale' = [stale EXCEPT ![f] =
                    @ \/ (authOk[f] = 0 /\ access_token_expires_in <= now)]

(* line 97-99, and 101-102 when the status asks for no refresh *)
Line97(f) ==
    /\ pc[f] = "l97"
    /\ Step(f)
    /\ \E r \in ListingResponses :
        /\ Get(f, r)
        /\ IF ShouldReauthorize(r.status_code)
           THEN /\ pc' = [pc EXCEPT ![f] = "l49"]
                /\ site' = [site EXCEPT ![f] = "l99"]
                /\ authCalls' = [authCalls EXCEPT ![f] = @ + 1]
                /\ UNCHANGED <<result, runHist>>
           ELSE /\ Finish(f, Outcome(r), <<r.status_code>>)
                /\ UNCHANGED <<site, authCalls>>
    /\ UNCHANGED <<now, shared, args, chk, authOk, raceHist, wrapperHist, fetches>>

(* line 100-102: the one retried GET *)
Line100(f) ==
    /\ pc[f] = "l100"
    /\ Step(f)
    /\ \E r \in ListingResponses :
        /\ Get(f, r)
        /\ IF AfterRetry(r.status_code) = "l101"
           THEN /\ Finish(f, Outcome(r), Append(statuses[f], r.status_code))
                /\ UNCHANGED <<site, authCalls>>
           ELSE /\ pc' = [pc EXCEPT ![f] = "l49"]
                /\ site' = [site EXCEPT ![f] = "l99"]
                /\ authCalls' = [authCalls EXCEPT ![f] = Min(@ + 1, 3)]
                /\ UNCHANGED <<result, runHist>>
    /\ UNCHANGED <<now, shared, args, chk, authOk, raceHist, wrapperHist, fetches>>

(* ------------------------------- _authorize --------------------------- *)
(* line 49-54: the token request; at most cap requests are modelled *)
TokenRequest(f, cap) ==
    /\ pc[f] = "l49"
    /\ Step(f)
    /\ posts < cap
    /\ posts' = posts + 1
    /\ \E r \in TokenResponses(posts + 1) :
        /\ response' = [response EXCEPT ![f] = r]
        /\ issued' = IF r.status_code = 200 /\ "access_token" \in DOMAIN r.json
                     THEN issued \cup {posts + 1} ELSE issued
    /\ pc' = [pc EXCEPT ![f] = "l55"]
    /\ UNCHANGED <<now, shared, site, args, result, fetchHist, runHist,
                   lastWritten, authT, authE, authTok, returned, fetches>>

Line49(f) == TokenRequest(f, MaxTokenRequests)

(* line 55-59: status assertion, the bearer header is stored, expires_in read *)
Line55(f) ==
    /\ pc[f] = "l55"
    /\ Step(f)
    /\ IF ~AuthorizeAssert(response[f].status_code)
       THEN /\ Finish(f, Raise("AssertionError", 55, <<>>), statuses[f])
            /\ UNCHANGED <<auth_headers, lastWritten, raceHist>>
       ELSE IF "access_token" \notin DOMAIN response[f].json
       THEN /\ Finish(f, Raise("KeyError", 57, <<"access_token">>), statuses[f])
            /\ UNCHANGED <<auth_headers, lastWritten, raceHist>>
       ELSE /\ auth_headers' = StoreToken(auth_headers, response[f].json["access_token"])
            /\ lastWritten' = response[f].json["access_token"]
            /\ myTok' = [myTok EXCEPT ![f] = response[f].json["access_token"]]
            /\ overwritten' =
                  [g \in Callers |->
                      IF g = f THEN FALSE
                      ELSE overwritten[g] \/ (myTok[g] # NoToken /\ pc[g] # "done")]
            /\ IF "expires_in" \notin DOMAIN response[f].json
               THEN Finish(f, Raise("KeyError", 59, <<"expires_in">>), statuses[f])
               ELSE /\ pc' = [pc EXCEPT ![f] = "l60"]
                    /\ UNCHANGED <<result, runHist>>
    /\ UNCHANGED <<now, access_token_expires_in, site, args, response, chk,
                   authCalls, authOk, sent, stale, statuses, target, posts, issued,
                   authT, authE, authTok, returned, fetches>>

(* line 60: the expiry instant is stored; _authorize returns to its caller *)
Line60(f) ==
    /\ pc[f] = "l60"
    /\ Step(f)
    /\ access_token_expires_in' = ExpiryInstant(now, response[f].json["expires_in"])
    /\ authT' = now
    /\ authE' = response[f].json["expires_in"]
    /\ authTok' = response[f].json["access_token"]
    /\ returned' = returned \cup {response[f].json["access_token"]}
    /\ authOk' = [authOk EXCEPT ![f] = @ + 1]
    /\ pc' = [pc EXCEPT ![f] = IF site[f] = "l96" THEN "l97" ELSE "l100"]
    /\ response' = [response EXCEPT ![f] = NoResponse]
    /\ UNCHANGED <<now, auth_headers, site, args, result, chk, authCalls, sent,
                   stale, statuses, target, raceHist, runHist, posts, issued,
                   lastWritten, fetches>>

(* ---------------------------- specification --------------------------- *)
Next ==
    \/ Tick
    \/ \E f \in Callers : subreddit_submissions(f)
    \/ \E f \in Callers : user_submissions(f)
    \/ \E f \in Callers : Line95(f)
    \/ \E f \in Callers : Line49(f)
    \/ \E f \in Callers : Line55(f)
    \/ \E f \in Callers : Line60(f)
    \/ \E f \in Callers : Line97(f)
    \/ \E f \in Callers : Line100(f)

Spec == Init /\ [][Next]_vars

(* one caller alone, asking for every sort order *)
Alone == 1

NextSeq ==
    \/ Tick
    \/ SubredditCall(Alone, SortType)
    \/ UserCall(Alone, SortType)
    \/ Line95(Alone)
    \/ Line49(Alone)
    \/ Line55(Alone)
    \/ Line60(Alone)
    \/ Line97(Alone)
    \/ Line100(Alone)

SpecSeq == Init /\ [][NextSeq]_vars

(* two callers, one fetch each, one of each kind, run to the end: a fetch  *)
(* makes at most two token requests, so the cap of TokenRequest never      *)
(* holds a caller back                                                     *)
OneFetch(f) ==
    /\ pc[f] = "idle"
    /\ IF f = 1 THEN subreddit_submissions(f) ELSE user_submissions(f)

Line49Pair(f) == TokenRequest(f, 2 * Cardinality(Callers))

StepPair(f) ==
    \/ Line95(f)
    \/ Line49Pair(f)
    \/ Line55(f)
    \/ Line60(f)
    \/ Line97(f)
    \/ Line100(f)

NextPair ==
    \/ Tick
    \/ \E f \in Callers : OneFetch(f)
    \/ \E f \in Callers : StepPair(f)

SpecPair == Init /\ [][NextPair]_vars

(* the same two fetches with the clock standing still: the clock only      *)
(* picks the branch of line 95, and both branches occur here, the second   *)
(* caller finding the token of the first unexpired.  Every HTTP call       *)
(* returns and every caller keeps running.                                 *)
NextLive ==
    \/ \E f \in Callers : OneFetch(f)
    \/ \E f \in Callers : StepPair(f)

SpecLive == Init /\ [][NextLive]_vars /\ \A f \in Callers : WF_vars(StepPair(f))


(* ============================ properties ============================== *)
Last(q) == q[Len(q)]

(* the upstream contract of a listing body: data.children of {data: ...} *)
WellFormed(json) ==
    /\ "data" \in DOMAIN json
    /\ "children" \in DOMAIN json["data"]
    /\ \A i \in 1..Len(json["data"]["children"]) :
          "data" \in DOMAIN json["data"]["children"][i]

ExpectedList(json) ==
    [i \in 1..Len(json["data"]["children"]) |-> json["data"]["children"][i]["data"]]

Retried200(f) ==
    /\ pc[f] = "done"
    /\ Len(statuses[f]) = 2
    /\ statuses[f][1] \in {401, 403}
    /\ statuses[f][2] = 200
    /\ response[f].request = "GET"

(* C1 - token reuse: consecutive fetches of a caller that found the stored  *)
(* expiry later than the clock at their check and whose GET was answered    *)
(* 200 made no authorize() call: the count over the run of such fetches is 0 *)
C1_TokenReuse == \A f \in Callers : run[f] >= 1 => runAuth[f] = 0

C1_Witness == \E f \in Callers : run[f] = 2 /\ runAuth[f] = 0 /\ pc[f] = "done"

(* C2 - cached until near expiry: a fetch whose check happens less than     *)
(* expires_in - 60 seconds (in clock units, nanoseconds) after the latest   *)
(* successful authorize() goes straight to its GET                          *)
C2_CachedUntilNearExpiry ==
    [][\A f \in Callers :
          (/\ pc[f] = "l95"
           /\ pc'[f] # "l95"
           /\ authE # 0
           /\ (now - authT) \div NsPerSecond < authE - 60)
          => pc'[f] = "l97"]_vars

(* C3 - safety margin: the stored expiry is the clock reading of            *)
(* authorize() plus expires_in minus 60; with expires_in = 3600 it is       *)
(* now + 3600 - 60                                                          *)
C3_SafetyMargin ==
    /\ authE # 0 => access_token_expires_in = authT + authE - 60
    /\ authE = 3600 => access_token_expires_in = authT + 3600 - 60

C3_Witness == \E f \in Callers : authOk[f] >= 1 /\ authE = 3600 /\ authT = now

(* C4 - expiry boundary: a fetch whose check found the stored expiry equal  *)
(* to the clock reading calls authorize(), and that authorize() has         *)
(* returned before the first GET is issued                                  *)
C4_ExpiryBoundary ==
    \A f \in Callers :
        chk[f] = "equal" =>
            /\ authCalls[f] >= 1
            /\ pc[f] = "l97" => authOk[f] >= 1
            /\ Len(sent[f]) >= 1 => authOk[f] >= 1

C4_Witness == \E f \in Callers : chk[f] = "equal" /\ Len(sent[f]) >= 1

(* C5 as stated - single retry: a fetch answered 401/403 and then 200       *)
(* returns the submissions of the 200 body and called authorize() exactly   *)
(* once                                                                      *)
C5_SingleRetryOnce ==
    \A f \in Callers :
        Retried200(f) =>
            /\ WellFormed(response[f].json) =>
                   result[f] = Return(ExpectedList(response[f].json))
            /\ authCalls[f] = 1

(* C5 amended - single retry: such a fetch returns the submissions of the   *)
(* 200 body and called authorize() exactly once after its first GET: once   *)
(* in all when its check found the token unexpired, twice when the check    *)
(* had already refreshed it                                                 *)
C5_SingleRetry ==
    \A f \in Callers :
        Retried200(f) =>
            /\ WellFormed(response[f].json) =>
                   result[f] = Return(ExpectedList(response[f].json))
            /\ authCalls[f] = IF chk[f] = "later" THEN 1 ELSE 2
            /\ authOk[f] = authCalls[f]

C5_Witness ==
    \E f \in Callers :
        /\ Retried200(f)
        /\ chk[f] = "later"
        /\ authCalls[f] = 1
        /\ result[f] = Return(<<[id |-> "a"], [id |-> "b"]>>)

(* C6 - no retry loop: a fetch issues at most two GETs and at most two      *)
(* authorize() calls; after 401 and 401 again it has failed, with no third  *)
(* GET                                                                       *)
C6_NoRetryLoop ==
    \A f \in Callers :
        /\ Len(sent[f]) <= 2
        /\ authCalls[f] <= 2
        /\ (Len(statuses[f]) = 2 /\ statuses[f][2] \in {401, 403}) =>
              (pc[f] = "done" /\ result[f].kind = "raise")

C6_Witness ==
    \E f \in Callers :
        statuses[f] = <<401, 401>> /\ pc[f] = "done" /\ Len(sent[f]) = 2

(* C7 as stated - a fetch whose final listing response is not 200 fails     *)
(* with an error that carries that response's status code                   *)
C7_ErrorCarriesStatus ==
    \A f \in Callers :
        (/\ pc[f] = "done"
         /\ response[f].request = "GET"
         /\ response[f].status_code # 200)
        => (result[f].kind = "raise" /\ result[f].args = <<response[f].status_code>>)

(* C8 - a token request answered non-200 ends the fetch with the error of   *)
(* line 55, in both positions: no further authorize() call and no listing   *)
(* GET after it                                                             *)
C8_AuthorizeFailureFatal ==
    \A f \in Callers :
        (response[f].request = "POST" /\ response[f].status_code # 200) =>
            /\ pc[f] \in {"l55", "done"}
            /\ pc[f] = "done" => result[f] = Raise("AssertionError", 55, <<>>)
            /\ Len(sent[f]) = IF site[f] = "l96" THEN 0 ELSE 1
            /\ authCalls[f] = (IF chk[f] = "later" THEN 0 ELSE 1)
                              + (IF site[f] = "l96" THEN 0 ELSE 1)

C8_Witness ==
    \E f \in Callers :
        /\ pc[f] = "done"
        /\ response[f].request = "POST"
        /\ response[f].status_code # 200
        /\ site[f] = "l99"
        /\ Len(sent[f]) = 1

(* C9 as stated - no GET leaves while the stored expiry is unset or not     *)
(* later than the clock at dispatch, unless authorize() succeeded earlier   *)
(* in the same fetch                                                        *)
C9_NoStaleDispatch == \A f \in Callers : ~stale[f]

(* C9 amended - no GET leaves unless the fetch's check found the stored     *)
(* expiry later than the clock reading of that check, or authorize()        *)
(* succeeded earlier in the same fetch                                      *)
C9_CheckedBeforeDispatch ==
    \A f \in Callers :
        (pc[f] = "l97" \/ Len(sent[f]) >= 1) => (chk[f] = "later" \/ authOk[f] >= 1)

C9_Witness == \E f \in Callers : stale[f] /\ chk[f] = "later" /\ authOk[f] = 0

(* C10 - concurrent fetches: every GET carries a token the token endpoint   *)
(* issued, a finished fetch has the full list of its 200 body or an error,  *)
(* and once all fetches are over the stored bearer token is the one of the  *)
(* latest write                                                             *)
C10_ConcurrentFetches ==
    /\ \A f \in Callers : \A i \in 1..Len(sent[f]) : sent[f][i] \in issued
    /\ \A f \in Callers :
          pc[f] = "done" =>
              \/ result[f].kind = "raise"
              \/ /\ result[f].kind = "return"
                 /\ response[f].request = "GET"
                 /\ response[f].status_code = 200
                 /\ result[f].value = ExpectedList(response[f].json)
    /\ ((\A f \in Callers : pc[f] \in {"idle", "done"}) /\ lastWritten # NoToken)
          => HeaderToken(auth_headers) = lastWritten

C10_Witness ==
    /\ \A f \in Callers :
          pc[f] = "done" /\ chk[f] # "later" /\ authOk[f] = 1 /\ result[f].kind = "return"
    /\ issued = {1, 2}
    /\ HeaderToken(auth_headers) = 1


(* the fetch of caller f got a 200 listing response as its final response *)
Final200(f) ==
    /\ pc[f] = "done"
    /\ response[f].request = "GET"
    /\ response[f].status_code = 200

(* C11 - order preservation: for a 200 body with children c1..cn the fetch  *)
(* returns c1.data .. cn.data: same length, same order, every element kept  *)
C11_OrderPreserved ==
    \A f \in Callers :
        (Final200(f) /\ WellFormed(response[f].json)) =>
            LET children == response[f].json["data"]["children"] IN
            /\ result[f].kind = "return"
            /\ Len(result[f].value) = Len(children)
            /\ \A i \in 1..Len(children) : result[f].value[i] = children[i]["data"]

C11_Witness ==
    \E f \in Callers :
        /\ Final200(f)
        /\ response[f].json["data"] = [children |-> <<WrapB, WrapA>>]
        /\ result[f].value = <<[id |-> "b"], [id |-> "a"]>>

(* C12 - no partial results: a fetch ends with the complete list of a 200   *)
(* body or with an error; a failed fetch yields no submissions, and nothing *)
(* is returned before the fetch ends                                        *)
C12_NoPartialResults ==
    \A f \in Callers :
        /\ pc[f] # "done" => result[f] = NoResult
        /\ pc[f] = "done" =>
              /\ result[f].kind \in {"return", "raise"}
              /\ result[f].kind = "return" <=>
                    (Final200(f) /\ WellFormed(response[f].json))
              /\ result[f].kind = "raise" => result[f].value = <<>>
              /\ result[f].kind = "return" =>
                    Len(result[f].value) = Len(response[f].json["data"]["children"])

C12_Witness ==
    \E f \in Callers :
        /\ Final200(f)
        /\ response[f].json["data"] = [children |-> <<WrapA, WrapNoData>>]
        /\ result[f] = Raise("KeyError", 102, <<"data">>)

(* C14 - fresh client: while no authorize() has succeeded every fetch that  *)
(* made its check found the token expired, called authorize() and sent no   *)
(* GET; every GET carries an Authorization bearer header                    *)
C14_FreshClient ==
    \A f \in Callers :
        /\ \A i \in 1..Len(sent[f]) : sent[f][i] # NoToken
        /\ Len(sent[f]) >= 1 => authE # 0
        /\ (authE = 0 /\ chk[f] # "none") =>
              (chk[f] # "later" /\ authCalls[f] >= 1 /\ sent[f] = <<>>)

C14_Witness ==
    \E f \in Callers :
        fetches = 1 /\ chk[f] = "earlier" /\ authOk[f] = 1 /\ Len(sent[f]) = 1

(* C16 - lazy refresh: authorize() starts only inside a fetch, at the check *)
(* when the stored expiry is not later than the clock or after a 401/403    *)
(* listing response; only authorize() writes the token state; a fetch with  *)
(* an unexpired token whose first response is neither 401 nor 403 ends      *)
(* after that one GET, without a refresh and without writing token state    *)
C16_LazyRefreshOnly ==
    [][\A f \in Callers :
          /\ authCalls'[f] > authCalls[f] =>
                \/ pc[f] = "l95" /\ access_token_expires_in <= now
                \/ pc[f] = "l97" /\ response'[f].status_code \in {401, 403}
          /\ posts' > posts => \E g \in Callers : pc[g] = "l49" /\ authCalls[g] >= 1
          /\ shared' # shared =>
                \E g \in Callers : pc[g] \in {"l55", "l60"} /\ pc'[g] # pc[g]
          /\ (chk'[f] = "later" /\ Len(statuses'[f]) >= 1
                  /\ statuses'[f][1] \notin {401, 403}) =>
                (pc'[f] = "done" /\ Len(sent'[f]) = 1 /\ authCalls'[f] = 0)
          /\ (pc'[f] # pc[f] /\ authCalls'[f] = 0) => shared' = shared]_vars

C16_Witness ==
    \E f \in Callers :
        chk[f] = "later" /\ statuses[f] = <<404>> /\ pc[f] = "done" /\ authCalls[f] = 0

(* C19 as stated - a failing authorize() leaves the bearer header and the   *)
(* stored expiry as they were                                               *)
C19_FailedAuthorizeKeepsState ==
    [][\A f \in Callers :
          (pc[f] = "l55" /\ pc'[f] = "done") =>
              (auth_headers' = auth_headers
                  /\ access_token_expires_in' = access_token_expires_in)]_vars


NoAuthorizeInProgress == \A f \in Callers : pc[f] \notin {"l49", "l55", "l60"}

(* C18 as stated - token and expiry stay paired: when no authorize() is in  *)
(* progress and the stored bearer token comes from an authorize() that has  *)
(* returned, the stored expiry was computed from that same token response   *)
C18_TokenExpiryPaired ==
    (NoAuthorizeInProgress /\ HeaderToken(auth_headers) \in returned)
        => authTok = HeaderToken(auth_headers)


(* the names of the sort orders, by the number auto() gave them *)
NameOf(sort) ==
    CASE sort = 1 -> "hot" [] sort = 2 -> "top" [] sort = 3 -> "new"
      [] sort = 4 -> "controversial"

(* C13 - path vs query asymmetry: the subreddit fetch targets .../r/s/o     *)
(* with query exactly {limit: n}; the user fetch targets                    *)
(* .../user/u/submitted with query exactly {limit: n, sort: o}; distinct    *)
(* sort orders have distinct names                                          *)
C13_PathVsQuery ==
    /\ \A f \in Callers :
          target[f] # NoTarget =>
              /\ call[f].op = "subreddit" =>
                    /\ target[f][1] = <<"https://oauth.reddit.com", "r",
                                        call[f].name, NameOf(call[f].sort)>>
                    /\ DOMAIN target[f][2] = {"limit"}
                    /\ target[f][2]["limit"] = call[f].limit
              /\ call[f].op = "user" =>
                    /\ target[f][1] = <<"https://oauth.reddit.com", "user",
                                        call[f].name, "submitted">>
                    /\ DOMAIN target[f][2] = {"limit", "sort"}
                    /\ target[f][2]["limit"] = call[f].limit
                    /\ target[f][2]["sort"] = NameOf(call[f].sort)
    /\ \A a, b \in SortMembers(SortType) : SortName(a) = SortName(b) => a = b
    /\ {SortName(a) : a \in SortMembers(SortType)} =
          {"hot", "top", "new", "controversial"}

C13_Witness ==
    \E f \in Callers :
        /\ call[f] = [op |-> "user", name |-> "bar", limit |-> 10, sort |-> 4]
        /\ Len(sent[f]) = 2
        /\ target[f][2]["sort"] = "controversial"


(* C15 as stated - the retried GET carries the token that this fetch's own  *)
(* authorize() after the 401/403 returned, never the rejected one, also     *)
(* with another fetch running on the same client                            *)
C15_RetryCarriesOwnToken ==
    \A f \in Callers :
        Len(sent[f]) = 2 => (sent[f][2] = myTok[f] /\ sent[f][2] # sent[f][1])

(* C15 amended - the retried GET carries the token stored in the shared     *)
(* header when it is sent: a token the token endpoint issued, never the     *)
(* rejected one, and the one this fetch's own authorize() returned unless   *)
(* another fetch's authorize() has stored its token since                   *)
C15_RetryCarriesStoredToken ==
    \A f \in Callers :
        Len(sent[f]) = 2 =>
            /\ sent[f][2] # sent[f][1]
            /\ sent[f][2] \in issued
            /\ ~overwritten[f] => sent[f][2] = myTok[f]

C15_Witness ==
    \E f \in Callers :
        /\ Len(sent[f]) = 2
        /\ overwritten[f]
        /\ sent[f][2] # myTok[f]
        /\ sent[f][2] \in issued

(* C17 - termination: with every HTTP call answered, every fetch that has   *)
(* started ends, with a list or an error, after at most nine steps: the     *)
(* check, two authorizations of three steps each and two GETs               *)
C17_FetchTerminates ==
    /\ \A f \in Callers :
          (pc[f] \notin {"idle", "done"}) ~>
              (pc[f] = "done" /\ result[f].kind \in {"return", "raise"})
    /\ [](\A f \in Callers : steps[f] <= 9)

C17_Witness ==
    \E f \in Callers :
        pc[f] = "done" /\ authOk[f] = 2 /\ Len(sent[f]) = 2 /\ steps[f] = 9 /\ posts >= 3

====
